---- MODULE Spec2Model ----
(***************************************************************************)
(* TimerKeeper.hpp: Timer, TimedEvent, JobEvent and PriorityEvent.         *)
(*                                                                         *)
(* One event object and the caller that owns it.  The clock                *)
(* (Clock::now()) is an integer tick counter that never goes back.        *)
(* Durations in seconds (waitTime, getLateness()) are fixed-point numbers  *)
(* counted in units of 1/SubTicks of a clock tick, so a waitTime need not  *)
(* be a whole number of ticks; the arithmetic on them is exact (the        *)
(* rounding of the double multiplication by pow(10, -9) is not modelled).  *)
(***************************************************************************)
EXTENDS Integers, FiniteSets, Sequences, TLC

\* Bounds of the model.
MaxTime == 5        \* last clock tick explored
MaxStep == 2        \* largest clock advance between two operations
MaxSkew == 1        \* largest clock advance between two reads inside one call
MaxWait == 4        \* largest waitTime, in units of 1/SubTicks tick
MaxNegWait == 1     \* most negative waitTime passed to a constructor
MaxPriority == 1    \* priorities range over -MaxPriority..MaxPriority
MaxFired == 3       \* successful handlings explored per event
SubTicks == 2       \* seconds resolution: units per clock tick
NumPeers == 3       \* PriorityEvent objects compared with each other

VARIABLES
    now,          \* Clock::now()
    pc,           \* "none": not constructed; "idle": the caller has control;
                  \* "job": inside job() called by JobEvent::handle;
                  \* "terminated": std::terminate() was called
    kind,         \* dynamic type of the object
    startTime,    \* Timer::startTime
    handled,      \* TimedEvent::handled
    repeated,     \* TimedEvent::repeated
    waitTime,     \* TimedEvent::waitTime
    job,          \* JobEvent::job: "empty", "ok" (returns), "throws", or
                  \* "reenters" (calls handle() on its own event once, then
                  \* returns)
    priority,     \* PriorityEvent::priority
    result,       \* the local `result` of the latest handle() call
    failure,      \* the exception that left a noexcept function, if any
    fired,        \* history: handle() calls whose TimedEvent::handle gave true
    jobCalls,     \* history: invocations of the stored callback
    trueReturns,  \* history: handle() calls that returned true to the caller
    callJobs,     \* history: callback invocations made by the latest handle()
    lastCall,     \* history: what the latest handle() call saw and when
    ctorTime,     \* history: the clock value the constructor read
    base,         \* a plain TimedEvent constructed with the same arguments at
                  \* the same clock value, and handled at the same clock values
    depth,        \* the number of job() invocations that have not returned
    reentered,    \* the innermost running callback has made its handle()
                  \* call and has it back
    lastFired,    \* history: the clock value at which the latest handle()
                  \* call that fired was made
    prioritySet,  \* history: setPriority() has changed the priority
    via,          \* the static type of the reference handle() was last
                  \* called through
    timer,        \* a Timer object of its own: startTime, endTime, and the
                  \* history of the start() and stop() calls made on it
    peers,        \* the priority fields of NumPeers PriorityEvent objects
    cmp           \* the latest comparison made between two of them

vars == <<now, pc, kind, startTime, handled, repeated, waitTime, job, priority,
          result, failure, fired, jobCalls, trueReturns, callJobs, lastCall,
          ctorTime, base, via, depth, reentered, lastFired, prioritySet,
          timer, peers, cmp>>

\* The clock and the event object.
eventVars == <<now, pc, kind, startTime, handled, repeated, waitTime, job,
               priority, result, failure, fired, jobCalls, trueReturns,
               callJobs, lastCall, ctorTime, base, via, depth, reentered,
               lastFired, prioritySet>>

\* The stack of running callbacks.
frames == <<depth, reentered>>

\* The companion TimedEvent and the reference used.
shadow == <<base, via>>

\* The objects other than the event: no operation on the event touches them.
others == <<timer, peers, cmp>>

Kinds == {"TimedEvent", "JobEvent", "PriorityEvent"}
Callbacks == {"empty", "ok", "throws", "reenters"}
Priorities == (0 - MaxPriority)..MaxPriority
WaitTimes == (0 - MaxNegWait)..MaxWait
NoCall == [made |-> FALSE, should |-> FALSE, at |-> 0, startTime |-> 0,
           handled |-> FALSE]

Peers == 1..NumPeers
NoCmp == [made |-> FALSE, a |-> 0, b |-> 0, gt |-> FALSE, has |-> FALSE]

\* Timer's implicit default constructor: both time points are
\* default-constructed, which is the clock's epoch.
NewTimer == [startTime |-> 0, endTime |-> 0, started |-> FALSE,
             stopped |-> FALSE]

\* The values a later Clock::now() inside the same call can return.
ClockReads == {t \in now..(now + MaxSkew) : t <= MaxTime}

\* duration.count() * pow(10, -9): ticks to seconds.
toSeconds(count) == count * SubTicks

\* TimedEvent::getLateness
getLateness == toSeconds(now - startTime) - waitTime

\* Mutant: the boundary is excluded (> instead of >=).
isDue_Strict == getLateness > 0

\* TimedEvent::isDue
isDue == getLateness >= 0

\* TimedEvent::isHandled
isHandled == handled

\* Mutant: the handled flag is not consulted.
shouldHandle_IgnoresHandled == isDue

\* TimedEvent::shouldHandle
shouldHandle == ~handled /\ isDue

\* Timer::start
start == \E t \in ClockReads : now' = t /\ startTime' = t

EventInit ==
    /\ now = 0
    /\ pc = "none"
    /\ kind = "TimedEvent"
    /\ startTime = 0
    /\ handled = FALSE
    /\ repeated = FALSE
    /\ waitTime = 0
    /\ job = "empty"
    /\ priority = 0
    /\ result = FALSE
    /\ failure = "none"
    /\ fired = 0
    /\ jobCalls = 0
    /\ trueReturns = 0
    /\ callJobs = 0
    /\ lastCall = NoCall
    /\ ctorTime = 0
    /\ base = [startTime |-> 0, handled |-> FALSE, result |-> FALSE]
    /\ via = "TimedEvent"
    /\ prioritySet = FALSE
    /\ lastFired = 0
    /\ depth = 0
    /\ reentered = FALSE

Init ==
    /\ EventInit
    /\ timer = NewTimer
    /\ peers = [i \in Peers |-> 0]
    /\ cmp = NoCmp

\* The types a reference to an object of dynamic type k can have:
\* JobEvent derives publicly from TimedEvent, PriorityEvent from JobEvent.
StaticTypes(k) ==
    CASE k = "TimedEvent" -> {"TimedEvent"}
      [] k = "JobEvent" -> {"TimedEvent", "JobEvent"}
      [] k = "PriorityEvent" -> {"TimedEvent", "JobEvent", "PriorityEvent"}

\* Mutant: handle() is not virtual; the static type selects the function.
Dispatch_Static(static, dynamic) ==
    IF static = "TimedEvent" THEN "TimedEvent::handle" ELSE "JobEvent::handle"

\* A call of the virtual handle(): the final overrider of the dynamic type
\* runs (PriorityEvent does not override JobEvent::handle).
Dispatch(static, dynamic) ==
    IF dynamic = "TimedEvent" THEN "TimedEvent::handle" ELSE "JobEvent::handle"

\* TimedEvent::handle on the companion object b, which reads the clock as
\* t1 in getLateness() and as t2 in start().
BaseHandle(b, t1, t2) ==
    IF ~b.handled /\ toSeconds(t1 - b.startTime) - waitTime >= 0
       THEN IF repeated
               THEN [startTime |-> t2, handled |-> b.handled, result |-> TRUE]
               ELSE [startTime |-> b.startTime, handled |-> TRUE,
                     result |-> TRUE]
       ELSE [b EXCEPT !.result = FALSE]

\* The monotonic clock advances.
Tick ==
    /\ pc \in {"none", "idle", "job"}
    /\ \E d \in 1..MaxStep : now + d <= MaxTime /\ now' = now + d
    /\ UNCHANGED <<pc, kind, startTime, handled, repeated, waitTime, job,
                   priority, result, failure, fired, jobCalls, trueReturns,
                   callJobs, lastCall, ctorTime>>
    /\ UNCHANGED others
    /\ UNCHANGED shadow
    /\ UNCHANGED prioritySet
    /\ UNCHANGED lastFired
    /\ UNCHANGED frames

\* Mutant: the constructor does not call start(); startTime stays the
\* default-constructed time_point (the clock's epoch).
TimedEventCtor_NoStart(rep, wt) ==
    /\ repeated' = rep
    /\ waitTime' = wt
    /\ handled' = FALSE
    /\ startTime' = 0
    /\ now' = now
    /\ ctorTime' = now

\* TimedEvent::TimedEvent(rep, wt): the member initialisers, then start().
TimedEventCtor(rep, wt) ==
    /\ repeated' = rep
    /\ waitTime' = wt
    /\ handled' = FALSE
    /\ start
    /\ ctorTime' = now'

\* TimedEvent(rep, wt), JobEvent(cb, rep, wt), PriorityEvent(cb, p, rep, wt).
Construct ==
    /\ pc = "none"
    /\ \E k \in Kinds, rep \in BOOLEAN, wt \in WaitTimes :
          /\ kind' = k
          /\ TimedEventCtor(rep, wt)
          /\ \E cb \in Callbacks, p \in Priorities :
                /\ job' = IF k = "TimedEvent" THEN "empty" ELSE cb
                /\ priority' = IF k = "PriorityEvent" THEN p ELSE 0
    /\ pc' = "idle"
    /\ base' = [startTime |-> now', handled |-> FALSE, result |-> FALSE]
    /\ UNCHANGED <<result, failure, fired, jobCalls, trueReturns, callJobs,
                   lastCall, via>>
    /\ UNCHANGED others
    /\ UNCHANGED prioritySet
    /\ UNCHANGED lastFired
    /\ UNCHANGED frames

\* Mutant: handled is set whether or not the event repeats.
TimedEvent_handle_AlwaysLatches ==
    /\ IF shouldHandle
          THEN /\ IF repeated
                     THEN start /\ handled' = TRUE
                     ELSE handled' = TRUE /\ UNCHANGED <<now, startTime>>
               /\ result' = TRUE
               /\ fired' = fired + 1
          ELSE /\ result' = FALSE
               /\ UNCHANGED <<now, startTime, handled, fired>>
    /\ lastCall' = [made |-> TRUE, should |-> shouldHandle, at |-> now',
                    startTime |-> startTime, handled |-> handled]

\* Mutant: start() is called before the test of repeated, so a one-shot
\* event restarts its clock too.
TimedEvent_handle_AlwaysRestarts ==
    /\ IF shouldHandle
          THEN /\ start
               /\ handled' = IF repeated THEN handled ELSE TRUE
               /\ result' = TRUE
               /\ fired' = fired + 1
          ELSE /\ result' = FALSE
               /\ UNCHANGED <<now, startTime, handled, fired>>
    /\ lastCall' = [made |-> TRUE, should |-> shouldHandle, at |-> now',
                    startTime |-> startTime, handled |-> handled]

\* Mutant: start() is called on the path that returns false too.
TimedEvent_handle_RestartsOnFalse ==
    /\ IF shouldHandle
          THEN /\ IF repeated
                     THEN start /\ handled' = handled
                     ELSE handled' = TRUE /\ UNCHANGED <<now, startTime>>
               /\ result' = TRUE
               /\ fired' = fired + 1
          ELSE /\ result' = FALSE
               /\ start
               /\ UNCHANGED <<handled, fired>>
    /\ lastCall' = [made |-> TRUE, should |-> shouldHandle, at |-> now',
                    startTime |-> startTime, handled |-> handled]

\* Mutant: the restart is phase-locked: startTime advances by waitTime
\* (in whole ticks) instead of being set to the clock value.
TimedEvent_handle_PhaseLocked ==
    /\ IF shouldHandle
          THEN /\ IF repeated
                     THEN /\ startTime' = startTime + (waitTime \div SubTicks)
                          /\ UNCHANGED <<now, handled>>
                     ELSE handled' = TRUE /\ UNCHANGED <<now, startTime>>
               /\ result' = TRUE
               /\ fired' = fired + 1
          ELSE /\ result' = FALSE
               /\ UNCHANGED <<now, startTime, handled, fired>>
    /\ lastCall' = [made |-> TRUE, should |-> shouldHandle, at |-> now',
                    startTime |-> startTime, handled |-> handled]

\* TimedEvent::handle
TimedEvent_handle ==
    /\ IF shouldHandle
          THEN /\ IF repeated
                     THEN start /\ handled' = handled
                     ELSE handled' = TRUE /\ UNCHANGED <<now, startTime>>
               /\ result' = TRUE
               /\ fired' = fired + 1
          ELSE /\ result' = FALSE
               /\ UNCHANGED <<now, startTime, handled, fired>>
    /\ lastCall' = [made |-> TRUE, should |-> shouldHandle, at |-> now',
                    startTime |-> startTime, handled |-> handled]

\* Mutant: an empty job is skipped (if (job) job();) and handle() returns.
InvokeJob_SkipsEmpty ==
    IF job = "empty"
       THEN /\ pc' = "idle"
            /\ trueReturns' = trueReturns + 1
            /\ callJobs' = 0
            /\ UNCHANGED <<failure, jobCalls>>
       ELSE /\ pc' = "job"
            /\ jobCalls' = jobCalls + 1
            /\ callJobs' = 1
            /\ UNCHANGED <<failure, trueReturns>>

\* job(): std::function::operator().  An empty std::function throws
\* std::bad_function_call; JobEvent::handle is noexcept, so an exception
\* leaving it calls std::terminate().
InvokeJob ==
    IF job = "empty"
       THEN /\ pc' = "terminated"
            /\ failure' = "bad_function_call"
            /\ callJobs' = 0
            /\ UNCHANGED <<jobCalls, trueReturns>>
       ELSE /\ pc' = "job"
            /\ jobCalls' = jobCalls + 1
            /\ callJobs' = 1
            /\ UNCHANGED <<failure, trueReturns>>

\* Mutant: job() is called whatever TimedEvent::handle returned.
JobEvent_handle_AlwaysInvokes ==
    /\ TimedEvent_handle
    /\ InvokeJob

\* Mutant: job() is called when the event should be handled, before
\* TimedEvent::handle makes the transition.
JobEvent_handle_JobFirst ==
    /\ lastCall' = [made |-> TRUE, should |-> shouldHandle, at |-> now,
                    startTime |-> startTime, handled |-> handled]
    /\ result' = shouldHandle
    /\ fired' = IF shouldHandle THEN fired + 1 ELSE fired
    /\ UNCHANGED <<now, startTime, handled>>
    /\ IF shouldHandle
          THEN InvokeJob
          ELSE /\ callJobs' = 0
               /\ UNCHANGED <<pc, failure, jobCalls, trueReturns>>

\* JobEvent::handle up to the call of job().
JobEvent_handle ==
    /\ TimedEvent_handle
    /\ IF result'
          THEN InvokeJob
          ELSE /\ callJobs' = 0
               /\ UNCHANGED <<pc, failure, jobCalls, trueReturns>>

\* The caller calls handle() and TimedEvent::handle runs.
HandleTimedEvent ==
    /\ pc = "idle"
    /\ fired < MaxFired
    /\ \E st \in StaticTypes(kind) :
          /\ Dispatch(st, kind) = "TimedEvent::handle"
          /\ via' = st
    /\ TimedEvent_handle
    /\ base' = BaseHandle(base, now, now')
    /\ lastFired' = IF result' THEN now ELSE lastFired
    /\ trueReturns' = IF result' THEN trueReturns + 1 ELSE trueReturns
    /\ callJobs' = 0
    /\ UNCHANGED <<pc, kind, repeated, waitTime, job, priority, failure,
                   jobCalls, ctorTime>>
    /\ UNCHANGED others
    /\ UNCHANGED prioritySet
    /\ UNCHANGED frames

\* The caller calls handle() and JobEvent::handle runs.
HandleJobEvent ==
    /\ pc = "idle"
    /\ fired < MaxFired
    /\ \E st \in StaticTypes(kind) :
          /\ Dispatch(st, kind) = "JobEvent::handle"
          /\ via' = st
    /\ JobEvent_handle
    /\ base' = BaseHandle(base, now, now')
    /\ lastFired' = IF result' THEN now ELSE lastFired
    /\ UNCHANGED <<kind, repeated, waitTime, job, priority, ctorTime>>
    /\ UNCHANGED others
    /\ UNCHANGED prioritySet
    /\ depth' = IF jobCalls' # jobCalls THEN depth + 1 ELSE depth
    /\ reentered' = FALSE

\* A running callback calls handle() on its own event: JobEvent::handle
\* runs again, inside the call that invoked the callback.
Reenter ==
    /\ pc = "job"
    /\ job = "reenters"
    /\ ~reentered
    /\ fired < MaxFired
    /\ \E st \in StaticTypes(kind) :
          /\ Dispatch(st, kind) = "JobEvent::handle"
          /\ via' = st
    /\ JobEvent_handle
    /\ base' = BaseHandle(base, now, now')
    /\ lastFired' = IF result' THEN now ELSE lastFired
    /\ UNCHANGED <<kind, repeated, waitTime, job, priority, ctorTime>>
    /\ UNCHANGED others
    /\ UNCHANGED prioritySet
    /\ depth' = IF jobCalls' # jobCalls THEN depth + 1 ELSE depth
    /\ reentered' = (jobCalls' = jobCalls)

\* The innermost callback returns; the JobEvent::handle that invoked it
\* returns result (true), to the caller or to the callback that called it.
JobReturn ==
    /\ pc = "job"
    /\ job = "ok" \/ (job = "reenters" /\ reentered)
    /\ depth' = depth - 1
    /\ pc' = IF depth = 1 THEN "idle" ELSE "job"
    /\ reentered' = (depth > 1)
    /\ trueReturns' = trueReturns + 1
    /\ UNCHANGED <<now, kind, startTime, handled, repeated, waitTime, job,
                   priority, result, failure, fired, jobCalls, callJobs,
                   lastCall, ctorTime>>
    /\ UNCHANGED others
    /\ UNCHANGED shadow
    /\ UNCHANGED prioritySet
    /\ UNCHANGED lastFired

\* The callback throws; the exception leaves the noexcept JobEvent::handle.
JobThrow ==
    /\ pc = "job"
    /\ job = "throws"
    /\ pc' = "terminated"
    /\ failure' = "callback_exception"
    /\ UNCHANGED <<now, kind, startTime, handled, repeated, waitTime, job,
                   priority, result, fired, jobCalls, trueReturns, callJobs,
                   lastCall, ctorTime>>
    /\ UNCHANGED others
    /\ UNCHANGED shadow
    /\ UNCHANGED prioritySet
    /\ UNCHANGED lastFired
    /\ UNCHANGED frames

\* JobEvent::setJob
setJob ==
    /\ pc = "idle"
    /\ kind # "TimedEvent"
    /\ \E cb \in Callbacks : job' = cb
    /\ UNCHANGED <<now, pc, kind, startTime, handled, repeated, waitTime,
                   priority, result, failure, fired, jobCalls, trueReturns,
                   callJobs, lastCall, ctorTime>>
    /\ UNCHANGED others
    /\ UNCHANGED shadow
    /\ UNCHANGED prioritySet
    /\ UNCHANGED lastFired
    /\ UNCHANGED frames

\* Mutant: setting the priority also restarts the clock of the event.
setPriority_Restarts ==
    /\ pc = "idle"
    /\ kind = "PriorityEvent"
    /\ \E p \in Priorities :
          /\ priority' = p
          /\ prioritySet' = (prioritySet \/ p # priority)
    /\ startTime' = now
    /\ UNCHANGED <<now, pc, kind, handled, repeated, waitTime,
                   job, result, failure, fired, jobCalls, trueReturns,
                   callJobs, lastCall, ctorTime>>
    /\ UNCHANGED others
    /\ UNCHANGED shadow
    /\ UNCHANGED lastFired
    /\ UNCHANGED frames

\* PriorityEvent::setPriority
setPriority ==
    /\ pc = "idle"
    /\ kind = "PriorityEvent"
    /\ \E p \in Priorities :
          /\ priority' = p
          /\ prioritySet' = (prioritySet \/ p # priority)
    /\ UNCHANGED <<now, pc, kind, startTime, handled, repeated, waitTime,
                   job, result, failure, fired, jobCalls, trueReturns,
                   callJobs, lastCall, ctorTime>>
    /\ UNCHANGED others
    /\ UNCHANGED shadow
    /\ UNCHANGED lastFired
    /\ UNCHANGED frames

Next ==
    \/ Tick
    \/ Construct
    \/ HandleTimedEvent
    \/ HandleJobEvent
    \/ Reenter
    \/ JobReturn
    \/ JobThrow
    \/ setJob
    \/ setPriority

Spec == Init /\ [][Next]_vars

\* A caller that constructs an event and from then on only polls handle(),
\* while the clock keeps advancing (up to MaxTime), the caller keeps
\* polling, and a callback that can return or call handle() does so.
PollNext ==
    \/ Tick
    \/ Construct
    \/ HandleTimedEvent
    \/ HandleJobEvent
    \/ Reenter
    \/ JobReturn
    \/ JobThrow

PollSpec ==
    /\ Init
    /\ [][PollNext]_vars
    /\ WF_vars(Tick)
    /\ WF_vars(HandleTimedEvent)
    /\ WF_vars(HandleJobEvent)
    /\ WF_vars(Reenter)
    /\ WF_vars(JobReturn)

(***************************************************************************)
(* A Timer object used as a stopwatch.                                     *)
(***************************************************************************)

\* Mutant: the operands of the subtraction are swapped.
getTimePassed_Reversed(t) == toSeconds(t.startTime - t.endTime)

\* Timer::getTimePassed
getTimePassed(t) == toSeconds(t.endTime - t.startTime)

\* Timer::start on the stopwatch.
Timer_start ==
    /\ timer' = [timer EXCEPT !.startTime = now, !.started = TRUE,
                              !.stopped = FALSE]
    /\ UNCHANGED <<eventVars, peers, cmp>>

\* Timer::stop on the stopwatch.
Timer_stop ==
    /\ timer' = [timer EXCEPT !.endTime = now, !.stopped = TRUE]
    /\ UNCHANGED <<eventVars, peers, cmp>>

TimerNext ==
    \/ Tick
    \/ Timer_start
    \/ Timer_stop

TimerSpec == Init /\ [][TimerNext]_vars

(***************************************************************************)
(* PriorityEvent objects compared with each other.  A comparison reads     *)
(* only the priority fields, which is all that is kept of them.            *)
(***************************************************************************)

\* Mutant: >= instead of >.
hasPriority_OrEqual(p, q) == p >= q

\* PriorityEvent::hasPriority: p is this->priority, q is event.getPriority().
hasPriority(p, q) == p > q

\* PriorityEvent::operator>
operator_gt(p, q) == hasPriority(p, q)

PriorityInit ==
    /\ EventInit
    /\ timer = NewTimer
    /\ peers \in [Peers -> Priorities]
    /\ cmp = NoCmp

\* PriorityEvent::setPriority on one of the objects.
Peer_setPriority ==
    /\ \E i \in Peers, p \in Priorities : peers' = [peers EXCEPT ![i] = p]
    /\ UNCHANGED <<eventVars, timer, cmp>>

\* a > b and a.hasPriority(b) evaluated on two of the objects (or on one
\* object and itself).
Peer_compare ==
    /\ \E i \in Peers, j \in Peers :
          cmp' = [made |-> TRUE, a |-> i, b |-> j,
                  gt |-> operator_gt(peers[i], peers[j]),
                  has |-> hasPriority(peers[i], peers[j])]
    /\ UNCHANGED <<eventVars, timer, peers>>

PriorityNext ==
    \/ Peer_setPriority
    \/ Peer_compare

PrioritySpec == PriorityInit /\ [][PriorityNext]_vars

(***************************************************************************)
(* Properties.                                                             *)
(***************************************************************************)

\* C1: for a one-shot event, once handled is set it stays set, no later
\* handle() call fires (every one of them leaves result false and invokes no
\* callback), and at most one handle() ever returns true; as soon as one
\* handle() has fired, handled is true.
C1_OneShotFiresOnce ==
    [][ /\ (~repeated' /\ fired' >= 1) => (handled' /\ trueReturns' <= 1)
        /\ (pc # "none" /\ ~repeated /\ handled) =>
              /\ handled'
              /\ fired' = fired
              /\ jobCalls' = jobCalls
              /\ (lastCall' # lastCall => ~result') ]_vars

\* C1 witness: a one-shot event that returned true once was polled again
\* while handled, and that call gave false.
C1_Witness ==
    /\ ~repeated /\ handled /\ trueReturns = 1
    /\ lastCall.made /\ lastCall.handled /\ ~result

\* C2: a recurring event is never handled, in any reachable state.
C2_RecurringNeverHandled == (pc # "none" /\ repeated) => ~isHandled

\* C2 witness: a recurring event fired twice and was then polled early.
C2_Witness ==
    /\ repeated /\ fired >= 2 /\ ~handled
    /\ lastCall.made /\ ~lastCall.should /\ ~result

\* C3: the latest TimedEvent::handle() call returned true exactly when
\* shouldHandle() held when it was called; if so a recurring event has
\* startTime equal to the clock value read by that call and handled still
\* false, and a one-shot event has handled true and the startTime it had
\* before the call.
C3_HandleTransition ==
    lastCall.made =>
        /\ result = lastCall.should
        /\ (result /\ repeated) => (startTime = lastCall.at /\ ~handled)
        /\ (result /\ ~repeated) =>
              (handled /\ startTime = lastCall.startTime)

\* C3 witness: a recurring event restarted at a clock value later than the
\* one it was constructed at.
C3_Witness ==
    /\ lastCall.made /\ result /\ repeated
    /\ startTime = lastCall.at /\ startTime > lastCall.startTime

\* C4: whenever the caller has control of a callback event, the callback
\* has been invoked as many times as handle() has returned true, and the
\* latest handle() call invoked it once if it returned true and not at all
\* if it returned false; while callbacks run, each of them is the one
\* invocation of a call that has not returned yet.
C4_CallbackOncePerTrue ==
    /\ (kind # "TimedEvent" /\ pc = "idle") =>
          /\ jobCalls = trueReturns
          /\ lastCall.made => callJobs = (IF result THEN 1 ELSE 0)
    /\ pc = "idle" => depth = 0
    /\ pc = "job" =>
          /\ depth >= 1
          /\ jobCalls = trueReturns + depth
          /\ ~reentered => (result /\ callJobs = 1)

\* C4 witness: a callback event returned true twice and then false.
C4_Witness ==
    /\ kind # "TimedEvent" /\ pc = "idle"
    /\ trueReturns >= 2 /\ jobCalls >= 2 /\ ~result /\ callJobs = 0

\* C5: when a callback starts and as long as it has not itself called
\* handle(), the transition has already been made: a
\* one-shot event is handled, and a recurring event has startTime equal to
\* the clock value read by the restart, so that its lateness at that clock
\* value is -waitTime.
C5_TransitionBeforeCallback ==
    (pc = "job" /\ ~reentered) =>
        /\ ~repeated => isHandled
        /\ repeated =>
              /\ startTime = lastCall.at
              /\ toSeconds(lastCall.at - startTime) - waitTime = 0 - waitTime

\* C5 witness: the callback of a recurring event runs after a restart at
\* a later clock value than that of construction.
C5_Witness == pc = "job" /\ repeated /\ startTime > ctorTime

\* C6 (as claimed): when the callback of an event with a valid waitTime
\* throws, the exception reaches the caller of handle(), which has control
\* of a usable event again.
C6_ExceptionPropagates ==
    (failure = "callback_exception" /\ waitTime >= 0) => pc = "idle"

\* C7 (as claimed): no constructed event has a negative waitTime.
C7_NoNegativeWait == pc # "none" => waitTime >= 0

\* C8: a handle() call on a callback event that should be handled and has
\* an empty job ends in std::terminate() by std::bad_function_call and
\* returns nothing to the caller; nothing happens after std::terminate().
C8_EmptyJobIsFatal ==
    [][ /\ pc # "terminated"
        /\ ( /\ pc = "idle" /\ kind # "TimedEvent" /\ job = "empty"
             /\ shouldHandle /\ lastCall' # lastCall ) =>
              /\ pc' = "terminated"
              /\ failure' = "bad_function_call"
              /\ trueReturns' = trueReturns
              /\ jobCalls' = jobCalls ]_vars

\* C8 witness: the process was terminated by std::bad_function_call.
C8_Witness ==
    /\ pc = "terminated" /\ failure = "bad_function_call"
    /\ job = "empty" /\ lastCall.should /\ trueReturns = 0

\* C9: shouldHandle() is (not handled and due), isDue() is lateness >= 0,
\* and lateness is (now - startTime) - waitTime; an event whose elapsed
\* time equals its waitTime is due.
C9_DueArithmetic ==
    pc # "none" =>
        /\ getLateness = (now - startTime) * SubTicks - waitTime
        /\ isDue = ((now - startTime) * SubTicks - waitTime >= 0)
        /\ shouldHandle =
              (~handled /\ (now - startTime) * SubTicks - waitTime >= 0)
        /\ (now - startTime) * SubTicks = waitTime => isDue

\* C9 witness: an unhandled event with a positive waitTime exactly at the
\* boundary.
C9_Witness ==
    /\ pc # "none" /\ waitTime > 0 /\ ~handled
    /\ getLateness = 0 /\ isDue /\ shouldHandle

\* C10: with waitTime W > 0, at the clock value of construction the event
\* is not due and its lateness is in [-W, 0); and when D >= W has passed
\* since construction with no restart, it is due and its lateness is at
\* least D - W.
C10_FreshAndElapsed ==
    (pc # "none" /\ waitTime > 0) =>
        /\ now = ctorTime =>
              (~isDue /\ getLateness >= 0 - waitTime /\ getLateness < 0)
        /\ ( /\ repeated => fired = 0
             /\ toSeconds(now - ctorTime) >= waitTime ) =>
              /\ isDue
              /\ getLateness >= toSeconds(now - ctorTime) - waitTime

\* C10 witness: an event constructed after the clock's epoch, never
\* restarted, with more than its waitTime elapsed.
C10_Witness ==
    /\ pc # "none" /\ waitTime > 0 /\ ctorTime > 0 /\ fired = 0
    /\ toSeconds(now - ctorTime) > waitTime /\ isDue

\* C11: when the latest handle() call of a recurring event returned true
\* and the clock has not advanced since, the lateness is exactly -waitTime
\* (the restart is from the clock value, not from startTime + waitTime), and
\* with waitTime > 0 the event is waiting again: it is not due and a repeated
\* handle() would not fire.
C11_RestartFromNow ==
    (repeated /\ lastCall.made /\ result /\ now = lastCall.at) =>
        /\ getLateness = 0 - waitTime
        /\ waitTime > 0 => (~isDue /\ ~shouldHandle)

\* C11 witness: a recurring event with a positive waitTime was handled
\* late (after more than its waitTime) and the clock has not advanced since.
C11_Witness ==
    /\ repeated /\ lastCall.made /\ result /\ now = lastCall.at
    /\ waitTime > 0
    /\ toSeconds(lastCall.at - lastCall.startTime) > waitTime
    /\ getLateness = 0 - waitTime

\* C12: a > b and a.hasPriority(b) hold exactly when a.priority >
\* b.priority; over the priorities of any objects the relation is
\* irreflexive, antisymmetric and transitive, and two objects of equal
\* priority are incomparable.  The latest comparison made is recorded with
\* the priorities it read only as long as they are unchanged.
C12_StrictPriorityOrder ==
    /\ \A i \in Peers, j \in Peers, k \in Peers :
          /\ operator_gt(peers[i], peers[j]) = (peers[i] > peers[j])
          /\ hasPriority(peers[i], peers[j]) = (peers[i] > peers[j])
          /\ ~operator_gt(peers[i], peers[i])
          /\ operator_gt(peers[i], peers[j]) =>
                ~operator_gt(peers[j], peers[i])
          /\ (operator_gt(peers[i], peers[j]) /\
              operator_gt(peers[j], peers[k])) =>
                operator_gt(peers[i], peers[k])
          /\ peers[i] = peers[j] =>
                (~operator_gt(peers[i], peers[j]) /\
                 ~operator_gt(peers[j], peers[i]))
    /\ cmp.made =>
          /\ cmp.gt = cmp.has
          /\ cmp.gt => cmp.a # cmp.b

\* C12 witness: two distinct objects of equal priority were compared and
\* found unordered, next to a third of higher priority.
C12_Witness ==
    /\ cmp.made /\ cmp.a # cmp.b /\ peers[cmp.a] = peers[cmp.b] /\ ~cmp.gt
    /\ \E k \in Peers : operator_gt(peers[k], peers[cmp.a])

\* C13: handle() on a callback or priority event makes the transitions of
\* handled and startTime, and computes the boolean, that TimedEvent::handle
\* makes on a plain TimedEvent over the same clock values; a call that
\* fires invokes the stored callback, through whatever type of reference it
\* was made (an empty job ends it in std::bad_function_call instead).
C13_DerivedRefinesBase ==
    pc # "none" =>
        /\ startTime = base.startTime
        /\ handled = base.handled
        /\ lastCall.made => result = base.result
        /\ ( /\ kind # "TimedEvent" /\ lastCall.made /\ result
             /\ failure # "bad_function_call" ) => callJobs = 1
        /\ (pc = "idle" /\ kind # "TimedEvent") => jobCalls = trueReturns

\* C13 witness: handle() called on a PriorityEvent through a TimedEvent
\* reference fired and the callback ran and returned.
C13_Witness ==
    /\ kind = "PriorityEvent" /\ via = "TimedEvent" /\ lastCall.made
    /\ result /\ base.result /\ callJobs = 1 /\ pc = "idle"
    /\ trueReturns >= 1 /\ jobCalls = trueReturns

\* C14: a change of the priority changes nothing else of the event (handled,
\* startTime, waitTime, repeated, the job, the counts of handlings and
\* callbacks) and leaves isDue() and shouldHandle() as they were; no
\* handle() call, callback return or clock advance changes the priority;
\* and a priority event, whatever its priority, has the handled, startTime
\* and handle() result of a plain TimedEvent, which has no priority.
C14_PriorityIndependent ==
    [][ pc # "none" =>
          /\ priority' # priority =>
                /\ UNCHANGED <<handled, startTime, waitTime, repeated, job,
                               now, pc, result, fired, jobCalls, trueReturns>>
                /\ isDue' = isDue
                /\ shouldHandle' = shouldHandle
          /\ (lastCall' # lastCall \/ fired' # fired \/ pc' # pc
              \/ now' # now \/ job' # job) => priority' = priority
          /\ kind' = "PriorityEvent" =>
                /\ handled' = base'.handled
                /\ startTime' = base'.startTime
                /\ lastCall'.made => result' = base'.result ]_vars

\* C14 witness: a priority event whose priority was changed by
\* setPriority() has fired after its waitTime.
C14_Witness ==
    /\ kind = "PriorityEvent" /\ prioritySet /\ waitTime > 0
    /\ fired >= 1 /\ result /\ base.result

C16_FalseHandleChangesNothing ==
    [][ (pc # "none" /\ ~shouldHandle) =>
          /\ UNCHANGED <<startTime, handled, waitTime, repeated, fired,
                         jobCalls>>
          /\ lastCall' # lastCall =>
                /\ ~result'
                /\ callJobs' = 0
                /\ UNCHANGED <<job, priority, pc, now, trueReturns>> ]_vars

\* C16 witness: a priority event was polled before it was due, and a
\* one-shot event after it was handled; here the first.
C16_Witness ==
    /\ kind = "PriorityEvent" /\ waitTime > 0 /\ fired = 0
    /\ lastCall.made /\ ~lastCall.should /\ ~result /\ callJobs = 0
    /\ startTime = ctorTime /\ ~handled

\* C17: after construction no step changes waitTime or repeated, and no
\* step changes the startTime of a one-shot event.
C17_ConstructionParametersFixed ==
    [][ pc # "none" =>
          /\ waitTime' = waitTime
          /\ repeated' = repeated
          /\ ~repeated => startTime' = startTime ]_vars

\* C17 witness: a one-shot priority event that was handled after its
\* waitTime and had its priority changed still has the startTime of its
\* construction.
C17_Witness ==
    /\ kind = "PriorityEvent" /\ ~repeated /\ handled /\ prioritySet
    /\ waitTime > 0 /\ startTime = ctorTime /\ now > ctorTime

\* C18: for a recurring event, a handle() call that fires is made at least
\* waitTime after the call of the previous one that fired; the restart is
\* at the clock value read by the firing call, never before the call; and
\* the k-th firing call is made at least k * waitTime after construction.
C18_FiringsAtLeastWaitApart ==
    [][ /\ (repeated' /\ fired' >= 1) =>
              toSeconds(lastFired' - ctorTime') >= fired' * waitTime'
        /\ (repeated /\ fired' = fired + 1) =>
              /\ lastFired' = now
              /\ startTime' = now'
              /\ startTime' >= lastFired'
              /\ fired >= 1 =>
                    toSeconds(lastFired' - lastFired) >= waitTime ]_vars

\* C18 witness: a recurring event with a positive waitTime has fired
\* twice, the second time later than two waitTimes after construction.
C18_Witness ==
    /\ repeated /\ waitTime > 0 /\ fired >= 2
    /\ toSeconds(lastFired - ctorTime) > fired * waitTime

\* C20: a handle() call made by a running callback on its own event fires
\* (and so invokes the callback again, inside itself) only if the event is
\* recurring and its waitTime has elapsed again since the restart; the
\* callback of a one-shot event is never running twice at once, and a
\* re-entrant call that does not fire gives false and invokes nothing.
C20_ReentrantHandle ==
    [][ /\ ~repeated' => depth' <= 1
        /\ (pc = "job" /\ depth' = depth + 1) =>
              /\ repeated
              /\ toSeconds(now - startTime) >= waitTime
              /\ result'
              /\ jobCalls' = jobCalls + 1
        /\ (pc = "job" /\ ~reentered /\ reentered' /\ depth' = depth) =>
              /\ ~repeated \/ toSeconds(now - startTime) < waitTime
              /\ ~result'
              /\ jobCalls' = jobCalls
              /\ UNCHANGED <<startTime, handled>> ]_vars

\* C20 witness: the callback of a recurring event with a positive waitTime
\* is running inside itself.
C20_Witness == pc = "job" /\ repeated /\ waitTime > 0 /\ depth = 2

\* The clock can still reach the value at which the event is due.
Horizon == toSeconds(MaxTime - startTime) >= waitTime

\* C19: while the clock keeps advancing and the caller keeps polling, a
\* one-shot event that can become due within the clock values explored
\* eventually fires and is handled, and it never fires or runs its callback
\* more than once (with a callback that returns, it ends with one callback
\* invocation and one true return); a recurring event in the same situation
\* that has fired k times eventually fires once more, for every k below
\* MaxFired, and is never handled.
C19_EventuallyFires ==
    /\ [](~repeated => (fired <= 1 /\ jobCalls <= 1 /\ trueReturns <= 1))
    /\ [](repeated => ~handled)
    /\ (pc = "idle" /\ ~repeated /\ ~handled /\ Horizon)
          ~> (handled /\ fired = 1)
    /\ (pc = "idle" /\ ~repeated /\ ~handled /\ Horizon /\ job = "ok"
        /\ kind # "TimedEvent")
          ~> [](pc = "idle" /\ handled /\ jobCalls = 1 /\ trueReturns = 1)
    /\ \A k \in 0..(MaxFired - 1) :
          (pc = "idle" /\ repeated /\ fired = k /\ Horizon)
             ~> (fired > k /\ ~handled)

\* C19 witness: a one-shot callback event with a positive waitTime has
\* fired once and its callback has run once and returned.
C19_Witness ==
    /\ kind # "TimedEvent" /\ ~repeated /\ waitTime > 0 /\ job = "ok"
    /\ pc = "idle" /\ handled /\ fired = 1 /\ jobCalls = 1
    /\ trueReturns = 1

====
